---- MODULE Spec2Model ----
(***************************************************************************)
(* Model of the VDI block driver, block/vdi.c.                             *)
(*                                                                         *)
(* The host file is modelled by its three regions (header sector, block    *)
(* map, data region).  A uint32_t is modelled by its 32-bit pattern read   *)
(* as a two's-complement integer (TLC integers are 32 bits wide), so       *)
(* UINT32_MAX is -1 and 0xbeda107f is -1093005185.  A sector of guest data *)
(* is modelled by one value: 0 for a zero-filled sector, a positive value  *)
(* for a sector of caller data.                                            *)
(***************************************************************************)
EXTENDS Integers, Sequences, FiniteSets, TLC

VARIABLES
    host_bigendian, \* build: byte order of the host (HOST_WORDS_BIGENDIAN)
    config_aio,     \* build: CONFIG_AIO defined (vdi.c:120, vdi.c:770)
    options,        \* the options the latest vdi_create was called with
    file,           \* the image file held by s->hd
    opened,         \* vdi_open has returned 0
    bs,             \* BlockDriverState fields the driver sets
    s,              \* BDRVVdiState
    call,           \* the blocking vdi_read / vdi_write call in progress
    acb,            \* the VdiAIOCB of the asynchronous request in progress
    req,            \* the caller's current request and its buffer
    prev,           \* the caller's previous request, once completed
    hostlog,        \* host I/O issued for the current request
    nreq,           \* requests started
    faults,         \* host failures injected
    snap            \* s when vdi_open returned and before the latest
                    \* allocation, the block index of that allocation and
                    \* the header and map of the file when it began

vars == <<host_bigendian, config_aio, options, file, opened, bs, s, call,
          acb, req, prev, hostlog, nreq, faults, snap>>

\* What no operation on an image changes: the build, and the options the
\* image was created with.
build == <<host_bigendian, config_aio, options>>

(***************************************************************************)
(* Program constants.                                                      *)
(***************************************************************************)
KiB == 1024
MiB == KiB * KiB
SECTOR_SIZE == 512
VDI_SIGNATURE == -1093005185
VDI_VERSION_1_1 == 65537
VDI_TYPE_DYNAMIC == 1
VDI_TYPE_STATIC == 2
VDI_UNALLOCATED == -1
EIO == 5

\* sizeof(uint32_t)
SizeofU32 == 4

\* sizeof(VdiHeader)
SizeofHeader == 512

\* SECTOR_SIZE / sizeof(uint32_t): block map entries in one sector
EntriesPerSector == SECTOR_SIZE \div SizeofU32

(***************************************************************************)
(* Bounds of the model.                                                    *)
(***************************************************************************)
MaxRequests == 2
MaxFaults == 1

\* Sizes of the images the model starts from (bytes).
ImageSizes == {2 * MiB, 256 * MiB}
\* Values an uninitialized or out-of-bounds word of memory may hold.
GarbageWords == {VDI_UNALLOCATED, 0}
\* A sector never written to the file.
Unwritten == 0 - 1
\* Content of a caller buffer before anything is stored in it.
Poison == 0 - 2

(***************************************************************************)
(* Byte order.                                                             *)
(***************************************************************************)
Byte(x, i) == (x \div (256 ^ i)) % 256

FromBytes(b0, b1, b2, b3) ==
    (IF b3 >= 128 THEN b3 - 256 ELSE b3) * 16777216
        + b2 * 65536 + b1 * 256 + b0

bswap32(x) == FromBytes(Byte(x, 3), Byte(x, 2), Byte(x, 1), Byte(x, 0))

le32_to_cpu(x) == IF host_bigendian THEN bswap32(x) ELSE x

cpu_to_le32(x) == IF host_bigendian THEN bswap32(x) ELSE x

\* A uint64_t is the pair <<low word, high word>>.
U64(n) == <<n, 0>>

le64_to_cpu(p) ==
    IF host_bigendian THEN <<bswap32(p[2]), bswap32(p[1])>> ELSE p

cpu_to_le64(p) ==
    IF host_bigendian THEN <<bswap32(p[2]), bswap32(p[1])>> ELSE p

\* The fields of VdiHeader the driver reads.
Fields32 == {"signature", "version", "image_type", "offset_blockmap",
             "offset_data", "sector_size", "block_size", "blocks_in_image",
             "blocks_allocated"}

vdi_header_to_cpu(header) ==
    [f \in DOMAIN header |->
        IF f \in Fields32 THEN le32_to_cpu(header[f])
        ELSE le64_to_cpu(header[f])]

vdi_header_to_le(header) ==
    [f \in DOMAIN header |->
        IF f \in Fields32 THEN cpu_to_le32(header[f])
        ELSE cpu_to_le64(header[f])]

(***************************************************************************)
(* The host file.  file.header holds the values of the little-endian       *)
(* fields of sector 0, file.blockmap the values of the little-endian       *)
(* entries of the block map, file.full the physical blocks written         *)
(* completely, file.sec the sectors <<block, sector in block, content>>    *)
(* written individually or with caller data.                               *)
(***************************************************************************)
BlockSectorsOf(f) == f.header.block_size \div SECTOR_SIZE

DataStart(f) == f.header.offset_data \div SECTOR_SIZE

MapStart(f) == f.header.offset_blockmap \div SECTOR_SIZE

\* The words a host read of sector 0 stores in memory.
ReadHeaderSector(f) ==
    [fld \in DOMAIN f.header |->
        IF fld \in Fields32 THEN cpu_to_le32(f.header[fld])
        ELSE cpu_to_le64(f.header[fld])]

\* Content of file sector `offset` of the data region.
SectorAt(f, offset) ==
    LET k == (offset - DataStart(f)) \div BlockSectorsOf(f)
        sib == (offset - DataStart(f)) % BlockSectorsOf(f)
        hit == {t \in f.sec : t[1] = k /\ t[2] = sib}
    IN IF hit # {} THEN (CHOOSE t \in hit : TRUE)[3]
       ELSE IF k \in f.full THEN 0
       ELSE Unwritten

\* bdrv_read of n sectors of the data region.
ReadData(f, offset, n) == [j \in 1..n |-> SectorAt(f, offset + j - 1)]

\* bdrv_write of the n sectors `vals` at file sector `offset`.
WriteData(f, offset, vals) ==
    LET k == (offset - DataStart(f)) \div BlockSectorsOf(f)
        sib == (offset - DataStart(f)) % BlockSectorsOf(f)
        touched == {sib + j - 1 : j \in 1..Len(vals)}
        kept == {t \in f.sec : ~(t[1] = k /\ t[2] \in touched)}
        new == {<<k, sib + j - 1, vals[j]>> : j \in 1..Len(vals)}
    IN [f EXCEPT !.sec = kept \cup
            {t \in new : ~(t[1] \in f.full /\ t[3] = 0)}]

\* bdrv_write of a whole block buffer (zero-filled, `vals` copied in at
\* sector `sib`) at file sector `offset`.
WriteBlock(f, offset, sib, vals) ==
    LET k == (offset - DataStart(f)) \div BlockSectorsOf(f)
        kept == {t \in f.sec : t[1] # k}
        new == {<<k, sib + j - 1, vals[j]>> : j \in 1..Len(vals)}
    IN [f EXCEPT !.full = @ \cup {k},
                 !.sec = kept \cup {t \in new : t[3] # 0}]

\* bdrv_write of one sector taken from memory at &blockmap[first] to file
\* sector `offset`.  Words past the end of the in-memory map land in the
\* padding of the on-disk map, which holds no entry.
WriteMapSector(f, offset, first, blockmap) ==
    LET m == offset - MapStart(f)
        lo == m * EntriesPerSector
    IN IF offset < DataStart(f)
       THEN [f EXCEPT !.blockmap =
                [i \in DOMAIN f.blockmap |->
                    IF i >= lo /\ i < lo + EntriesPerSector
                       /\ (first + (i - lo)) \in DOMAIN blockmap
                    THEN le32_to_cpu(blockmap[first + (i - lo)])
                    ELSE f.blockmap[i]]]
       ELSE WriteData(f, offset, <<Unwritten>>)

\* bdrv_write of the header buffer `raw` to sector 0.
WriteHeaderSector(f, raw) ==
    [f EXCEPT !.header =
        [fld \in DOMAIN raw |->
            IF fld \in Fields32 THEN le32_to_cpu(raw[fld])
            ELSE le64_to_cpu(raw[fld])]]

(***************************************************************************)
(* vdi_create: the file written for a requested size.                      *)
(***************************************************************************)
vdi_create(bytes, static) ==
    LET block_size == 1 * MiB
        blocks == bytes \div block_size
        blockmap_size ==
            (((blocks * SizeofU32) + SECTOR_SIZE - 1) \div SECTOR_SIZE)
                * SECTOR_SIZE
        header == [signature |-> VDI_SIGNATURE,
                   version |-> VDI_VERSION_1_1,
                   image_type |-> IF static THEN VDI_TYPE_STATIC
                                  ELSE VDI_TYPE_DYNAMIC,
                   offset_blockmap |-> 512,
                   offset_data |-> 512 + blockmap_size,
                   sector_size |-> SECTOR_SIZE,
                   disk_size |-> U64(bytes),
                   block_size |-> block_size,
                   blocks_in_image |-> blocks,
                   blocks_allocated |-> 0]
    IN [header |-> header,
        blockmap |-> [i \in 0..(blocks - 1) |-> VDI_UNALLOCATED],
        full |-> {},
        sec |-> {}]

\* The images the model starts from: dynamic images as vdi_create leaves
\* them.
InitialImages == {vdi_create(b, FALSE) : b \in ImageSizes}

\* No vdi_create has been called.
NoOptions == [size |-> 0, static |-> "absent"]

NoState == [blockmap |-> <<>>, block_size |-> 0, block_sectors |-> 0,
            header |-> <<>>]

NoCall == [pc |-> "idle"]

NoAcb == [busy |-> FALSE]

\* The header sector and the block map of file f.
OnDiskMeta(f) == [header |-> f.header, blockmap |-> f.blockmap]

\* snap.crash names the point of an allocation at which the previous run
\* of the driver stopped, snap.clean whether vdi_check found nothing in
\* the state that allocation started from.
NoSnap == [open |-> NoState, before |-> NoState, block_index |-> 0,
           disk |-> OnDiskMeta([header |-> <<>>, blockmap |-> <<>>]),
           crash |-> "none", clean |-> FALSE]

NoReq == [op |-> "none", sector_num |-> 0, nb_sectors |-> 0, buf |-> <<>>,
          done |-> TRUE, ret |-> 0, pnum |-> 0]

Init ==
    /\ host_bigendian \in BOOLEAN
    /\ config_aio \in BOOLEAN
    /\ options = NoOptions
    /\ file \in InitialImages
    /\ opened = FALSE
    /\ bs = [total_sectors |-> 0]
    /\ s = NoState
    /\ call = NoCall
    /\ acb = NoAcb
    /\ req = NoReq
    /\ prev = NoReq
    /\ hostlog = <<>>
    /\ nreq = 0
    /\ faults = 0
    /\ snap = NoSnap

(***************************************************************************)
(* vdi_open                                                                *)
(***************************************************************************)
HeaderValid(header) ==
    /\ header.version = VDI_VERSION_1_1
    /\ header.offset_blockmap % SECTOR_SIZE = 0
    /\ header.offset_data % SECTOR_SIZE = 0
    /\ header.sector_size = SECTOR_SIZE
    /\ header.block_size = 1 * MiB
    /\ header.disk_size = U64(header.blocks_in_image * header.block_size)

\* Entries of the map the read at vdi.c:387 transfers.
EntriesRead(header) ==
    ((header.blocks_in_image * SizeofU32) \div SECTOR_SIZE) * EntriesPerSector

\* What the caller of vdi_open gets back.
OpenReturned(ret) == [NoReq EXCEPT !.op = "open", !.ret = ret]

vdi_open ==
    /\ ~opened
    /\ \E header \in {vdi_header_to_cpu(ReadHeaderSector(file))} :
       \E nread \in {EntriesRead(header)} :
       LET entries == 0..(header.blocks_in_image - 1)
       IN IF HeaderValid(header)
          THEN /\ \E junk \in [{i \in entries : i >= nread}
                                   -> GarbageWords] :
                     s' = [blockmap |->
                               [i \in entries |->
                                   IF i < nread
                                   THEN cpu_to_le32(file.blockmap[i])
                                   ELSE junk[i]],
                           block_size |-> header.block_size,
                           block_sectors |->
                               header.block_size \div SECTOR_SIZE,
                           header |-> header]
               /\ snap' = [snap EXCEPT !.open = s', !.before = s',
                                       !.block_index = 0,
                                       !.disk = OnDiskMeta(file)]
               /\ bs' = [total_sectors |->
                            header.disk_size[1] \div SECTOR_SIZE]
               /\ opened' = TRUE
               /\ req' = OpenReturned(0)
          ELSE \* goto fail, vdi.c:400-403
               /\ req' = OpenReturned(-1)
               /\ UNCHANGED <<opened, bs, s, snap>>
    /\ UNCHANGED <<build, file, call, acb, prev, hostlog, nreq, faults>>

(***************************************************************************)
(* vdi_check and vdi_is_allocated                                          *)
(***************************************************************************)
\* a < b for two int32_t.
ULess_Signed(a, b) == a < b

\* a < b for two uint32_t held as 32-bit patterns.
ULess(a, b) ==
    IF (a >= 0) = (b >= 0) THEN a < b ELSE a >= 0

\* The driver is between two requests, and the caller goes on.
Idle ==
    /\ opened /\ call.pc = "idle" /\ ~acb.busy /\ req.done
    /\ nreq < MaxRequests

\* The call returns ret (and *pnum) to the caller at once.
Returned(op, sector_num, nb_sectors, ret, pnum) ==
    /\ nreq' = nreq + 1
    /\ prev' = req
    /\ hostlog' = <<>>
    /\ req' = [op |-> op, sector_num |-> sector_num,
               nb_sectors |-> nb_sectors, buf |-> <<>>, done |-> TRUE,
               ret |-> ret, pnum |-> pnum]

\* The value vdi_check computes from the state st, vdi.c:252-283.
n_errors(st) ==
    LET blocks == 0..(st.header.blocks_in_image - 1)
        used == {block \in blocks :
                   le32_to_cpu(st.blockmap[block]) # VDI_UNALLOCATED}
        counted == {block \in used :
                      ULess(le32_to_cpu(st.blockmap[block]),
                            st.header.blocks_in_image)}
        blocks_allocated == Cardinality(counted)
    IN Cardinality(used \ counted)
          + (IF blocks_allocated # st.header.blocks_allocated
             THEN 1 ELSE 0)

vdi_check ==
    /\ Idle
    /\ Returned("check", 0, 0, n_errors(s), 0)
    /\ UNCHANGED <<build, file, opened, bs, s, call, acb, faults, snap>>

vdi_is_allocated(sector_num, nb_sectors) ==
    /\ Idle
    /\ LET blockmap_index == sector_num \div s.block_sectors
           sector_in_block == sector_num % s.block_sectors
           n_sectors == IF s.block_sectors - sector_in_block > nb_sectors
                        THEN nb_sectors
                        ELSE s.block_sectors - sector_in_block
       IN \E word \in IF blockmap_index \in DOMAIN s.blockmap
                      THEN {s.blockmap[blockmap_index]}
                      ELSE GarbageWords :
             Returned("is_allocated", sector_num, nb_sectors,
                      IF le32_to_cpu(word) # VDI_UNALLOCATED THEN 1 ELSE 0,
                      n_sectors)
    /\ UNCHANGED <<build, file, opened, bs, s, call, acb, faults, snap>>

(***************************************************************************)
(* Requests of the caller.                                                 *)
(***************************************************************************)
\* Sectors per block of the opened image.
BlockSectors == MiB \div SECTOR_SIZE

\* The requests the model issues, <<sector_num, nb_sectors>>: two sectors
\* inside the first block, two sectors across the boundary of the first
\* two blocks, the first sector of the first block whose map entry lies in
\* the second sector of the block map, and two sectors of which the first
\* is the last of the disk.
Requests ==
    {<<0, 2>>, <<BlockSectors - 1, 2>>,
     <<EntriesPerSector * BlockSectors, 1>>,
     <<bs.total_sectors - 1, 2>>}

\* A request that starts before the disk.  Only vdi_read and vdi_write are
\* given it: the other entry points go on to unsigned arithmetic on it.
Negative == {<<0 - 1, 1>>}

\* The caller's data: sector j of the buffer of request number r holds
\* 10 * r + j.
WriteBuffer(r, nb_sectors) == [j \in 1..nb_sectors |-> 10 * r + j]

\* The buffers a caller passes to a write: new data, or once more the data
\* of the write it has just made to the same sectors.
WriteBuffers(sector_num, nb_sectors) ==
    {WriteBuffer(nreq + 1, nb_sectors)} \cup
        (IF req.op = "write" /\ req.sector_num = sector_num
               /\ req.nb_sectors = nb_sectors
         THEN {req.buf} ELSE {})

ReadBuffer(nb_sectors) == [j \in 1..nb_sectors |-> Poison]

NewRequest(op, sector_num, nb_sectors, buf) ==
    [op |-> op, sector_num |-> sector_num, nb_sectors |-> nb_sectors,
     buf |-> buf, done |-> FALSE, ret |-> 0, pnum |-> 0]

\* Outcomes of a host I/O: TRUE is success.
Outcomes == IF faults < MaxFaults THEN BOOLEAN ELSE {TRUE}

Fault(ok) == faults' = IF ok THEN faults ELSE faults + 1

\* A host I/O of the current request: submitted or completed, for the
\* chunk of the request that starts at logical sector sector_num.
Event(ev, what, sector_num, offset, n, ok) ==
    [ev |-> ev, what |-> what, sector_num |-> sector_num,
     offset |-> offset, n |-> n, ok |-> ok]

\* A blocking bdrv_read / bdrv_write: issued and completed in the call.
Blocking(what, sector_num, offset, n, ok) ==
    <<Event("submit", what, sector_num, offset, n, TRUE),
      Event("complete", what, sector_num, offset, n, ok)>>

\* Sectors pos+1 .. pos+n of buffer buf replaced by vals.
Store(buf, pos, vals) ==
    [j \in 1..Len(buf) |->
        IF j > pos /\ j <= pos + Len(vals) THEN vals[j - pos] ELSE buf[j]]

Slice(buf, pos, n) == [j \in 1..n |-> buf[pos + j]]

Zeros(n) == [j \in 1..n |-> 0]

\* The chunk of a request computed as empty.
Min_Empty(a, b) == 0

Min(a, b) == IF a < b THEN a ELSE b

(***************************************************************************)
(* vdi_read (blocking build)                                               *)
(***************************************************************************)
Return(ret) ==
    /\ call' = NoCall
    /\ req' = [req EXCEPT !.done = TRUE, !.ret = ret]

vdi_read(sector_num, nb_sectors) ==
    /\ opened /\ ~config_aio /\ call.pc = "idle" /\ req.done
    /\ nreq < MaxRequests
    /\ nreq' = nreq + 1
    /\ prev' = req
    /\ hostlog' = <<>>
    /\ IF sector_num < 0
       THEN /\ req' = [NewRequest("read", sector_num, nb_sectors,
                                  ReadBuffer(nb_sectors))
                          EXCEPT !.done = TRUE, !.ret = -1]
            /\ call' = NoCall
       ELSE /\ req' = NewRequest("read", sector_num, nb_sectors,
                                 ReadBuffer(nb_sectors))
            /\ call' = [pc |-> "loop", op |-> "read",
                        sector_num |-> sector_num,
                        nb_sectors |-> nb_sectors, pos |-> 0,
                        blockmap_entry |-> 0]
    /\ UNCHANGED <<build, file, opened, bs, s, acb, faults, snap>>

\* One iteration of the loop at vdi.c:781.
vdi_read_loop ==
    /\ call.pc = "loop" /\ call.op = "read"
    /\ IF ~(call.nb_sectors > 0 /\ call.sector_num < bs.total_sectors)
       THEN /\ Return(0)
            /\ UNCHANGED <<hostlog, faults>>
       ELSE LET block_index == call.sector_num \div s.block_sectors
                sector_in_block == call.sector_num % s.block_sectors
                n_sectors == Min(s.block_sectors - sector_in_block,
                                 call.nb_sectors)
                blockmap_entry == le32_to_cpu(s.blockmap[block_index])
                offset == s.header.offset_data \div SECTOR_SIZE
                            + blockmap_entry * s.block_sectors
                            + sector_in_block
                next == [call EXCEPT !.pos = @ + n_sectors,
                                     !.sector_num = @ + n_sectors,
                                     !.nb_sectors = @ - n_sectors]
            IN IF blockmap_entry = VDI_UNALLOCATED
               THEN /\ req' = [req EXCEPT !.buf =
                                  Store(@, call.pos, Zeros(n_sectors))]
                    /\ call' = next
                    /\ UNCHANGED <<hostlog, faults>>
               ELSE \E ok \in Outcomes :
                    /\ Fault(ok)
                    /\ hostlog' = hostlog \o
                           Blocking("read", call.sector_num, offset,
                                    n_sectors, ok)
                    /\ IF ok
                       THEN /\ req' = [req EXCEPT !.buf =
                                   Store(@, call.pos,
                                         ReadData(file, offset, n_sectors))]
                            /\ call' = next
                       ELSE Return(-1)
    /\ UNCHANGED <<build, file, opened, bs, s, acb, prev, nreq, snap>>

(***************************************************************************)
(* vdi_write (blocking build)                                              *)
(***************************************************************************)
\* The test of vdi.c:828 and vdi.c:707 with the block reallocated on every
\* write.
NeedsAllocation_Always(blockmap_entry) == TRUE

\* vdi.c:828, vdi.c:707: the write needs a new block.
NeedsAllocation(blockmap_entry) == blockmap_entry = VDI_UNALLOCATED

\* vdi.c:832-834: the next physical block is assigned to block_index.
\* A store past the end of the map changes no entry of the map.
Allocate(st, block_index) ==
    [st EXCEPT !.blockmap =
                   IF block_index \in DOMAIN @
                   THEN [@ EXCEPT ![block_index] =
                            cpu_to_le32(st.header.blocks_allocated)]
                   ELSE @,
               !.header.blocks_allocated = @ + 1]

\* vdi.c:848: blockmap_entry &= ~(SECTOR_SIZE / sizeof(uint32_t) - 1)
MapSectorFirst(blockmap_entry) ==
    (blockmap_entry \div EntriesPerSector) * EntriesPerSector

\* vdi.c:849-850: the file sector of the map sector written.
MapSectorOffset(st, first) ==
    st.header.offset_blockmap \div SECTOR_SIZE
        + first \div EntriesPerSector

vdi_write(sector_num, buf, nb_sectors) ==
    /\ opened /\ ~config_aio /\ call.pc = "idle" /\ req.done
    /\ nreq < MaxRequests
    /\ nreq' = nreq + 1
    /\ prev' = req
    /\ hostlog' = <<>>
    /\ IF sector_num < 0
       THEN /\ req' = [NewRequest("write", sector_num, nb_sectors,
                                  buf)
                          EXCEPT !.done = TRUE, !.ret = -1]
            /\ call' = NoCall
       ELSE /\ req' = NewRequest("write", sector_num, nb_sectors, buf)
            /\ call' = [pc |-> "loop", op |-> "write",
                        sector_num |-> sector_num,
                        nb_sectors |-> nb_sectors, pos |-> 0,
                        blockmap_entry |-> 0]
    /\ UNCHANGED <<build, file, opened, bs, s, acb, faults, snap>>

\* The loop at vdi.c:819 up to its first bdrv_write.
vdi_write_loop ==
    /\ call.pc = "loop" /\ call.op = "write"
    /\ IF ~(call.nb_sectors > 0 /\ call.sector_num < bs.total_sectors)
       THEN /\ Return(0)
            /\ UNCHANGED <<file, s, hostlog, faults, snap>>
       ELSE LET block_index == call.sector_num \div s.block_sectors
                sector_in_block == call.sector_num % s.block_sectors
                n_sectors == Min(s.block_sectors - sector_in_block,
                                 call.nb_sectors)
                blockmap_entry == le32_to_cpu(s.blockmap[block_index])
                data == Slice(req.buf, call.pos, n_sectors)
            IN IF NeedsAllocation(blockmap_entry)
               THEN LET new_entry == s.header.blocks_allocated
                        offset == s.header.offset_data \div SECTOR_SIZE
                                    + new_entry * s.block_sectors
                    IN \E ok \in Outcomes :
                       /\ Fault(ok)
                       /\ s' = Allocate(s, block_index)
                       /\ snap' = [snap EXCEPT !.before = s,
                                               !.block_index = block_index,
                                               !.disk = OnDiskMeta(file)]
                       /\ hostlog' = hostlog \o
                              Blocking("block", call.sector_num, offset,
                                       s.block_sectors, ok)
                       /\ IF ok
                          THEN /\ file' = WriteBlock(file, offset,
                                              sector_in_block, data)
                               /\ call' = [call EXCEPT
                                             !.pc = "map",
                                             !.blockmap_entry = new_entry]
                               /\ UNCHANGED req
                          ELSE /\ Return(-1)
                               /\ UNCHANGED file
               ELSE LET offset == s.header.offset_data \div SECTOR_SIZE
                                    + blockmap_entry * s.block_sectors
                                    + sector_in_block
                    IN \E ok \in Outcomes :
                       /\ Fault(ok)
                       /\ hostlog' = hostlog \o
                              Blocking("data", call.sector_num, offset,
                                       n_sectors, ok)
                       /\ UNCHANGED <<s, snap>>
                       /\ IF ok
                          THEN /\ file' = WriteData(file, offset, data)
                               /\ call' = [call EXCEPT
                                             !.pos = @ + n_sectors,
                                             !.sector_num = @ + n_sectors,
                                             !.nb_sectors = @ - n_sectors]
                               /\ UNCHANGED req
                          ELSE /\ Return(-1)
                               /\ UNCHANGED file
    /\ UNCHANGED <<build, opened, bs, acb, prev, nreq>>

\* vdi.c:847-855: the modified sector of the block map is written.
vdi_write_blockmap ==
    /\ call.pc = "map"
    /\ LET first == MapSectorFirst(call.blockmap_entry)
           offset == MapSectorOffset(s, first)
       IN \E ok \in Outcomes :
          /\ Fault(ok)
          /\ hostlog' = hostlog \o Blocking("map", call.sector_num, offset, 1, ok)
          /\ IF ok
             THEN /\ file' = WriteMapSector(file, offset, first, s.blockmap)
                  /\ call' = [call EXCEPT !.pc = "header"]
                  /\ UNCHANGED req
             ELSE /\ Return(-1)
                  /\ UNCHANGED file
    /\ UNCHANGED <<build, opened, bs, s, acb, prev, nreq, snap>>

\* vdi.c:860 and vdi.c:864: the header is converted back after the write.
HeaderAfterWrite(raw, ok) == vdi_header_to_cpu(raw)

\* vdi.c:857-864 and the end of the loop body, vdi.c:875-877.
vdi_write_header ==
    /\ call.pc = "header"
    /\ LET raw == vdi_header_to_le(s.header)
           sector_in_block == call.sector_num % s.block_sectors
           n_sectors == Min(s.block_sectors - sector_in_block,
                            call.nb_sectors)
       IN \E ok \in Outcomes :
          /\ Fault(ok)
          /\ hostlog' = hostlog \o Blocking("header", call.sector_num, 0, 1, ok)
          /\ s' = [s EXCEPT !.header = HeaderAfterWrite(raw, ok)]
          /\ IF ok
             THEN /\ file' = WriteHeaderSector(file, raw)
                  /\ call' = [call EXCEPT !.pc = "loop",
                                          !.pos = @ + n_sectors,
                                          !.sector_num = @ + n_sectors,
                                          !.nb_sectors = @ - n_sectors]
                  /\ UNCHANGED req
             ELSE /\ Return(-1)
                  /\ UNCHANGED file
    /\ UNCHANGED <<build, opened, bs, acb, prev, nreq, snap>>

(***************************************************************************)
(* The asynchronous build (CONFIG_AIO).                                    *)
(***************************************************************************)
NoIo == [what |-> "none", offset |-> 0, n |-> 0, sib |-> 0, vals |-> <<>>,
         first |-> 0, raw |-> <<>>]

Io(what, offset, n) == [NoIo EXCEPT !.what = what, !.offset = offset, !.n = n]

\* The words a load of s->blockmap[block_index] may yield: the entry, or
\* whatever lies past the end of the allocation.
BlockmapWords(st, block_index) ==
    IF block_index \in DOMAIN st.blockmap
    THEN {st.blockmap[block_index]}
    ELSE GarbageWords

vdi_aio_setup(sector_num, nb_sectors, is_write) ==
    [busy |-> TRUE, is_write |-> is_write, sector_num |-> sector_num,
     nb_sectors |-> nb_sectors, n_sectors |-> 0, pos |-> 0,
     blockmap_entry |-> VDI_UNALLOCATED, block_buffer |-> "NULL",
     state |-> "aio_state_normal", hd_aiocb |-> NoIo, bh |-> FALSE]

\* Outcomes of a host call made after `spent` failures in the same step.
OutcomesAfter(spent) ==
    IF faults + spent < MaxFaults THEN BOOLEAN ELSE {TRUE}

\* The label done: the completion callback runs, the acb is released.
AioDone(r, ret) ==
    /\ acb' = NoAcb
    /\ req' = [r EXCEPT !.done = TRUE, !.ret = ret]

\* bdrv_aio_readv / bdrv_aio_writev on s->hd: NULL, or the request queued.
\* `ret` is the value the callback was entered with.
AioSubmit(a, r, io, ret, log, spent) ==
    \E ok \in OutcomesAfter(spent) :
       /\ faults' = faults + spent + (IF ok THEN 0 ELSE 1)
       /\ hostlog' = log \o <<Event("submit", io.what, a.sector_num, io.offset,
                                   io.n, ok)>>
       /\ IF ok
          THEN /\ acb' = [a EXCEPT !.hd_aiocb = io]
               /\ req' = r
          ELSE AioDone(r, ret)

\* Body of vdi_aio_read_cb, vdi.c:533-603, entered with acb `a`, the
\* caller's request `r` and the result `ret` of the host read.
ReadCb(a, r, ret, log, spent) ==
    IF ret < 0
    THEN /\ AioDone(r, ret)
         /\ hostlog' = log
         /\ faults' = faults + spent
    ELSE IF a.nb_sectors - a.n_sectors = 0
    THEN /\ AioDone(r, 0)
         /\ hostlog' = log
         /\ faults' = faults + spent
    ELSE LET sector_num == a.sector_num + a.n_sectors
             block_index == sector_num \div s.block_sectors
             sector_in_block == sector_num % s.block_sectors
             n_sectors == Min(s.block_sectors - sector_in_block,
                              a.nb_sectors - a.n_sectors)
             a1 == [a EXCEPT !.nb_sectors = @ - a.n_sectors,
                             !.sector_num = sector_num,
                             !.pos = @ + a.n_sectors,
                             !.n_sectors = n_sectors]
         IN \E word \in BlockmapWords(s, block_index) :
            LET blockmap_entry == le32_to_cpu(word)
                offset == s.header.offset_data \div SECTOR_SIZE
                            + blockmap_entry * s.block_sectors
                            + sector_in_block
                zeroed == [r EXCEPT !.buf = Store(@, a1.pos, Zeros(n_sectors))]
            IN IF blockmap_entry = VDI_UNALLOCATED
               THEN \* vdi_schedule_bh: qemu_bh_new may fail
                    \E ok \in OutcomesAfter(spent) :
                       /\ faults' = faults + spent + (IF ok THEN 0 ELSE 1)
                       /\ hostlog' = log
                       /\ IF ok
                          THEN /\ acb' = [a1 EXCEPT !.bh = TRUE]
                               /\ req' = zeroed
                          ELSE AioDone(zeroed, -EIO)
               ELSE AioSubmit(a1, r, Io("read", offset, n_sectors), ret,
                              log, spent)

vdi_aio_readv(sector_num, nb_sectors) ==
    /\ opened /\ config_aio /\ ~acb.busy /\ req.done
    /\ nreq < MaxRequests
    /\ nreq' = nreq + 1
    /\ prev' = req
    /\ ReadCb(vdi_aio_setup(sector_num, nb_sectors, FALSE),
              NewRequest("read", sector_num, nb_sectors,
                         ReadBuffer(nb_sectors)),
              0, <<>>, 0)
    /\ UNCHANGED <<build, file, opened, bs, s, call, snap>>

\* vdi.c:524-531
vdi_aio_read_bh ==
    /\ acb.busy /\ acb.bh
    /\ ReadCb([acb EXCEPT !.bh = FALSE], req, 0, hostlog, 0)
    /\ UNCHANGED <<build, file, opened, bs, s, call, prev, nreq, snap>>

\* The host read completes and calls vdi_aio_read_cb.
vdi_aio_read_cb ==
    /\ acb.busy /\ acb.hd_aiocb.what = "read"
    /\ LET io == acb.hd_aiocb
           a == [acb EXCEPT !.hd_aiocb = NoIo]
       IN \E ok \in Outcomes :
          LET log == hostlog \o
                        <<Event("complete", io.what, a.sector_num,
                                io.offset, io.n, ok)>>
          IN IF ok
             THEN ReadCb(a, [req EXCEPT !.buf =
                                Store(@, acb.pos,
                                      ReadData(file, io.offset, io.n))],
                         0, log, 0)
             ELSE ReadCb(a, req, -EIO, log, 1)
    /\ UNCHANGED <<build, file, opened, bs, s, call, prev, nreq, snap>>

\* vdi.c:721 with the map write left out of the sequence.
StateAfterAllocation_SkipMap == "aio_must_write_header"

\* vdi.c:721: the state in which the data write of an allocation completes.
StateAfterAllocation == "aio_must_write_blockmap"

\* Body of vdi_aio_write_cb, vdi.c:619-754.
WriteCb(a, r, ret, log, spent) ==
    IF ret < 0
    THEN /\ AioDone(r, ret)
         /\ hostlog' = log
         /\ faults' = faults + spent
         /\ UNCHANGED <<s, snap>>
    ELSE IF a.state = "aio_must_write_blockmap"
    THEN LET first == MapSectorFirst(a.blockmap_entry)
             offset == MapSectorOffset(s, first)
             a1 == [a EXCEPT !.state = "aio_must_write_header"]
         IN /\ AioSubmit(a1, r, [Io("map", offset, 1) EXCEPT !.first = first],
                         ret, log, spent)
            /\ UNCHANGED <<s, snap>>
    ELSE IF a.state = "aio_must_write_header"
    THEN LET raw == vdi_header_to_le(s.header)
             a1 == [a EXCEPT !.state = "aio_header_written",
                             !.block_buffer = "header"]
         IN /\ AioSubmit(a1, r, [Io("header", 0, 1) EXCEPT !.raw = raw],
                         ret, log, spent)
            /\ s' = [s EXCEPT !.header = vdi_header_to_cpu(raw)]
            /\ UNCHANGED snap
    ELSE LET a1 == IF a.state = "aio_header_written"
                   THEN [a EXCEPT !.block_buffer = "NULL",
                                  !.state = "aio_state_normal"]
                   ELSE a
             a2 == [a1 EXCEPT !.nb_sectors = @ - a.n_sectors,
                              !.sector_num = @ + a.n_sectors,
                              !.pos = @ + a.n_sectors]
         IN IF a2.nb_sectors = 0
            THEN /\ AioDone(r, 0)
                 /\ hostlog' = log
                 /\ faults' = faults + spent
                 /\ UNCHANGED <<s, snap>>
            ELSE LET block_index == a2.sector_num \div s.block_sectors
                     sector_in_block == a2.sector_num % s.block_sectors
                     n_sectors == Min(s.block_sectors - sector_in_block,
                                      a2.nb_sectors)
                     a3 == [a2 EXCEPT !.n_sectors = n_sectors]
                     data == Slice(r.buf, a3.pos, n_sectors)
                 IN \E word \in BlockmapWords(s, block_index) :
                    LET blockmap_entry == le32_to_cpu(word)
                    IN IF NeedsAllocation(blockmap_entry)
                       THEN LET new_entry == s.header.blocks_allocated
                                offset ==
                                    s.header.offset_data \div SECTOR_SIZE
                                        + new_entry * s.block_sectors
                                a4 == [a3 EXCEPT
                                        !.block_buffer = "block",
                                        !.blockmap_entry = new_entry,
                                        !.state = StateAfterAllocation]
                            IN /\ s' = Allocate(s, block_index)
                               /\ snap' = [snap EXCEPT
                                              !.before = s,
                                              !.block_index = block_index,
                                              !.disk = OnDiskMeta(file')]
                               /\ AioSubmit(a4, r,
                                    [Io("block", offset, s.block_sectors)
                                        EXCEPT !.sib = sector_in_block,
                                               !.vals = data],
                                    ret, log, spent)
                       ELSE LET offset ==
                                    s.header.offset_data \div SECTOR_SIZE
                                        + blockmap_entry * s.block_sectors
                                        + sector_in_block
                            IN /\ UNCHANGED <<s, snap>>
                               /\ AioSubmit(a3, r,
                                    [Io("data", offset, n_sectors)
                                        EXCEPT !.vals = data],
                                    ret, log, spent)

vdi_aio_writev(sector_num, buf, nb_sectors) ==
    /\ opened /\ config_aio /\ ~acb.busy /\ req.done
    /\ nreq < MaxRequests
    /\ nreq' = nreq + 1
    /\ prev' = req
    /\ UNCHANGED file
    /\ WriteCb(vdi_aio_setup(sector_num, nb_sectors, TRUE),
               NewRequest("write", sector_num, nb_sectors, buf),
               0, <<>>, 0)
    /\ UNCHANGED <<build, opened, bs, call>>

\* What a completed host write leaves in the file.
HostWrite(f, io, st) ==
    IF io.what = "block" THEN WriteBlock(f, io.offset, io.sib, io.vals)
    ELSE IF io.what = "data" THEN WriteData(f, io.offset, io.vals)
    ELSE IF io.what = "map"
    THEN WriteMapSector(f, io.offset, io.first, st.blockmap)
    ELSE WriteHeaderSector(f, io.raw)

\* The host write completes and calls vdi_aio_write_cb.
vdi_aio_write_cb ==
    /\ acb.busy /\ acb.hd_aiocb.what \in {"block", "data", "map", "header"}
    /\ LET io == acb.hd_aiocb
           a == [acb EXCEPT !.hd_aiocb = NoIo]
       IN \E ok \in Outcomes :
          LET log == hostlog \o
                        <<Event("complete", io.what, a.sector_num,
                                io.offset, io.n, ok)>>
          IN IF ok
             THEN /\ file' = HostWrite(file, io, s)
                  /\ WriteCb(a, req, 0, log, 0)
             ELSE /\ UNCHANGED file
                  /\ WriteCb(a, req, -EIO, log, 1)
    /\ UNCHANGED <<build, opened, bs, call, prev, nreq>>

(***************************************************************************)
(* vdi_close, or the process stopping at any point: the memory of the      *)
(* driver is gone, the file stays as the completed host writes left it.    *)
(***************************************************************************)
\* The point of an allocation the driver is at: its data write has
\* completed and its map write has not, or neither.
CrashPoint ==
    IF call.pc = "map" \/ (acb.busy /\ acb.hd_aiocb.what = "map")
    THEN "after_write1"
    ELSE "none"

vdi_close ==
    /\ opened
    /\ opened' = FALSE
    /\ s' = NoState
    /\ bs' = [total_sectors |-> 0]
    /\ call' = NoCall
    /\ acb' = NoAcb
    /\ req' = NoReq
    /\ prev' = NoReq
    /\ hostlog' = <<>>
    /\ snap' = [NoSnap EXCEPT
                   !.crash = CrashPoint,
                   !.clean = CrashPoint # "none" /\ n_errors(snap.before) = 0]
    /\ UNCHANGED <<build, file, nreq, faults>>

Next ==
    \/ vdi_open
    \/ vdi_close
    \/ \E q \in Requests \cup Negative : vdi_read(q[1], q[2])
    \/ vdi_read_loop
    \/ \E q \in Requests \cup Negative :
          \E buf \in WriteBuffers(q[1], q[2]) : vdi_write(q[1], buf, q[2])
    \/ vdi_write_loop
    \/ vdi_write_blockmap
    \/ vdi_write_header
    \/ \E q \in Requests : vdi_aio_readv(q[1], q[2])
    \/ vdi_aio_read_bh
    \/ vdi_aio_read_cb
    \/ \E q \in Requests :
          \E buf \in WriteBuffers(q[1], q[2]) :
             vdi_aio_writev(q[1], buf, q[2])
    \/ vdi_aio_write_cb
    \/ vdi_check
    \/ \E q \in Requests : vdi_is_allocated(q[1], q[2])

Spec == Init /\ [][Next]_vars

(***************************************************************************)
(* vdi_open on files whose sector 0 is not what vdi_create writes.         *)
(***************************************************************************)
\* Headers of a 2-block file in which every field that vdi_open may look
\* at has its proper value or another one.
Headers ==
    {[vdi_create(2 * MiB, FALSE).header EXCEPT
         !.signature = signature, !.version = version,
         !.offset_blockmap = offset_blockmap, !.offset_data = offset_data,
         !.sector_size = sector_size, !.block_size = block_size,
         !.disk_size = U64(disk_size)] :
       signature \in {VDI_SIGNATURE, 0},
       version \in {VDI_VERSION_1_1, 65536},
       offset_blockmap \in {512, 513},
       offset_data \in {1024, 1025},
       sector_size \in {SECTOR_SIZE, 2 * SECTOR_SIZE},
       block_size \in {1 * MiB, 2 * MiB},
       disk_size \in {2 * MiB, 4 * MiB}}

\* vdi.c:305-325: the score of a buffer of buf_size bytes whose header
\* words are buf.
vdi_probe(buf, buf_size) ==
    IF buf_size < SizeofHeader THEN 0
    ELSE IF le32_to_cpu(buf.signature) = VDI_SIGNATURE THEN 100
    ELSE 0

\* Sizes of the buffer handed to vdi_probe.
ProbeSizes == {SizeofHeader - 1, SizeofHeader, 4 * SizeofHeader}

\* What the caller of vdi_probe gets back; buf holds the size it passed.
ProbeReturned(buf_size, ret) ==
    [NoReq EXCEPT !.op = "probe", !.buf = <<buf_size>>, !.ret = ret]

\* The format of the file is guessed from its first bytes before it is
\* opened.
bdrv_probe ==
    /\ ~opened
    /\ \E buf_size \in ProbeSizes :
          req' = ProbeReturned(buf_size,
                               vdi_probe(ReadHeaderSector(file), buf_size))
    /\ UNCHANGED <<build, file, opened, bs, s, call, acb, prev, hostlog,
                   nreq, faults, snap>>

InitOpen ==
    /\ host_bigendian \in BOOLEAN
    /\ config_aio \in BOOLEAN
    /\ options = NoOptions
    /\ file \in {[vdi_create(2 * MiB, FALSE) EXCEPT !.header = h] :
                    h \in Headers}
    /\ opened = FALSE
    /\ bs = [total_sectors |-> 0]
    /\ s = NoState
    /\ call = NoCall
    /\ acb = NoAcb
    /\ req = NoReq
    /\ prev = NoReq
    /\ hostlog = <<>>
    /\ nreq = 0
    /\ faults = 0
    /\ snap = NoSnap

NextOpen ==
    \/ vdi_open
    \/ vdi_close
    \/ bdrv_probe

SpecOpen == InitOpen /\ [][NextOpen]_vars

(***************************************************************************)
(* vdi_check on files whose block map and counter are arbitrary.           *)
(***************************************************************************)
\* Values of an on-disk entry: unallocated, in range, and out of range
\* below and above 2^31.
MapWords == {VDI_UNALLOCATED, 0, 1, 300, 0 - 2}

\* The entries of the file that take every value of MapWords.
VariedEntries == 0..2

\* 256-block files with arbitrary first entries and counter.
CheckImages ==
    {[vdi_create(256 * MiB, FALSE) EXCEPT
         !.blockmap = [i \in DOMAIN @ |->
                          IF i \in VariedEntries THEN m[i] ELSE @[i]],
         !.header = [@ EXCEPT !.blocks_allocated = n]] :
       m \in [VariedEntries -> MapWords],
       n \in 0..(Cardinality(VariedEntries))}

InitCheck ==
    /\ host_bigendian \in BOOLEAN
    /\ config_aio \in BOOLEAN
    /\ options = NoOptions
    /\ file \in CheckImages
    /\ opened = FALSE
    /\ bs = [total_sectors |-> 0]
    /\ s = NoState
    /\ call = NoCall
    /\ acb = NoAcb
    /\ req = NoReq
    /\ prev = NoReq
    /\ hostlog = <<>>
    /\ nreq = 0
    /\ faults = 0
    /\ snap = NoSnap

NextCheck ==
    \/ vdi_open
    \/ vdi_check
    \/ vdi_close

SpecCheck == InitCheck /\ [][NextCheck]_vars

(***************************************************************************)
(* vdi_create called with a size and with or without the option "static". *)
(***************************************************************************)
\* Requested sizes: whole numbers of blocks, and one sector more or less.
CreateSizes ==
    {k * MiB + r : k \in 1..3, r \in {0, SECTOR_SIZE, MiB - SECTOR_SIZE}}

\* The entry "static" of the option list: not in the list, in the list
\* with the flag clear, in the list with the flag set.
StaticOptions == {"absent", "off", "on"}

\* vdi.c:912-913: any entry named "static" selects VDI_TYPE_STATIC.
StaticNamed(static) == static # "absent"

\* What the caller of vdi_create gets back.
CreateReturned(ret) == [NoReq EXCEPT !.op = "create", !.ret = ret]

\* vdi_create on the file name of the image, which is not open.
bdrv_create ==
    /\ ~opened
    /\ \E bytes \in CreateSizes, static \in StaticOptions :
          /\ options' = [size |-> bytes, static |-> static]
          /\ file' = vdi_create(bytes, StaticNamed(static))
    /\ req' = CreateReturned(0)
    /\ UNCHANGED <<host_bigendian, config_aio, opened, bs, s, call, acb,
                   prev, hostlog, nreq, faults, snap>>

InitCreate ==
    /\ host_bigendian \in BOOLEAN
    /\ config_aio \in BOOLEAN
    /\ options = NoOptions
    /\ file \in InitialImages
    /\ opened = FALSE
    /\ bs = [total_sectors |-> 0]
    /\ s = NoState
    /\ call = NoCall
    /\ acb = NoAcb
    /\ req = NoReq
    /\ prev = NoReq
    /\ hostlog = <<>>
    /\ nreq = 0
    /\ faults = 0
    /\ snap = NoSnap

NextCreate ==
    \/ bdrv_create
    \/ vdi_open
    \/ vdi_close

SpecCreate == InitCreate /\ [][NextCreate]_vars

(***************************************************************************)
(* Properties.                                                             *)
(***************************************************************************)
\* The entry of logical block i, in host byte order.
Entry(st, i) == le32_to_cpu(st.blockmap[i])

\* Number of entries of the in-memory map that are not VDI_UNALLOCATED.
Count(st) ==
    Cardinality({i \in DOMAIN st.blockmap : Entry(st, i) # VDI_UNALLOCATED})

\* Logical sector sector_num lies on the disk.
OnDisk(sector_num) == sector_num >= 0 /\ sector_num < bs.total_sectors

BlockOf(sector_num) == sector_num \div s.block_sectors

ReadDone == req.op = "read" /\ req.done

WriteDone == req.op = "write" /\ req.done

\* The request ended inside the disk.
InRange(r) ==
    r.sector_num >= 0 /\ r.sector_num + r.nb_sectors <= bs.total_sectors

LastEvent == hostlog[Len(hostlog)]

\* The current request ended at the failure of a host write of kind w,
\* reported at its submission or at its completion.
EndedAtFailureOf(w) ==
    /\ WriteDone
    /\ hostlog # <<>>
    /\ LastEvent.what \in w
    /\ ~LastEvent.ok

\* C1 (as claimed, for requests that end inside the disk): a read that
\* follows a successful write of the same sectors returns exactly the
\* bytes written.
C1_TranslationIdentity ==
    (/\ ReadDone /\ req.ret = 0
     /\ prev.op = "write" /\ prev.ret = 0
     /\ prev.sector_num = req.sector_num
     /\ prev.nb_sectors = req.nb_sectors
     /\ InRange(req))
        => req.buf = prev.buf

\* C2 (as claimed): a successful read returns zeros for every sector of
\* the disk whose map entry is VDI_UNALLOCATED, and no host read is issued
\* for such a sector.
C2_ZeroOnUnallocated ==
    /\ (ReadDone /\ req.ret = 0) =>
          \A j \in 1..req.nb_sectors :
             LET sector == req.sector_num + j - 1
             IN (OnDisk(sector)
                 /\ Entry(s, BlockOf(sector)) = VDI_UNALLOCATED)
                    => req.buf[j] = 0
    /\ req.op = "read" =>
          \A i \in 1..Len(hostlog) :
             (hostlog[i].what = "read" /\ OnDisk(hostlog[i].sector_num))
                => Entry(s, BlockOf(hostlog[i].sector_num))
                      # VDI_UNALLOCATED

\* C3 (as claimed): on an image whose allocation count agreed with its map
\* when it was opened, after every successful write blocks_allocated is
\* the number of entries that are not VDI_UNALLOCATED, and it is not below
\* its value at open.
C3_MonotoneAllocation ==
    (/\ opened
     /\ Count(snap.open) = snap.open.header.blocks_allocated
     /\ WriteDone /\ req.ret = 0)
        => /\ s.header.blocks_allocated = Count(s)
           /\ s.header.blocks_allocated
                 >= snap.open.header.blocks_allocated

\* C4: while the image is open, no step of any operation (read, write,
\* is-allocated probe, check, failed write) changes a map entry that is
\* not VDI_UNALLOCATED.
C4_NoReassignment ==
    [][(opened /\ opened') =>
          \A i \in DOMAIN s.blockmap :
             s.blockmap[i] # VDI_UNALLOCATED
                => s'.blockmap[i] = s.blockmap[i]]_vars

\* C4 witness: block 0 was allocated by the previous write and the current
\* write to block 0 has completed.
C4_Witness ==
    /\ opened /\ WriteDone /\ req.ret = 0 /\ req.sector_num = 0
    /\ prev.op = "write" /\ prev.ret = 0 /\ prev.sector_num = 0
    /\ snap.open.blockmap[0] = VDI_UNALLOCATED
    /\ s.blockmap[0] # VDI_UNALLOCATED

\* C5 (as claimed): the map write of an allocation is one sector, the one
\* that holds the entry of the logical block being allocated.
C5_MapSectorPatch ==
    \A i \in 1..Len(hostlog) :
       (hostlog[i].what = "map" /\ hostlog[i].ev = "submit"
        /\ OnDisk(hostlog[i].sector_num))
          => /\ hostlog[i].n = 1
             /\ hostlog[i].offset =
                   s.header.offset_blockmap \div SECTOR_SIZE
                      + (BlockOf(hostlog[i].sector_num) * SizeofU32)
                            \div SECTOR_SIZE

IsEvent(e, ev, what) == e.ev = ev /\ e.what = what

\* C6: among the host I/O of a request, the map sector is submitted right
\* after the data block of an allocation completed successfully, the header
\* (one sector at file sector 0) right after the map sector completed
\* successfully, and nothing else is submitted after either completion.
C6_GrowthOrdering ==
    \A i \in 1..Len(hostlog) :
       /\ IsEvent(hostlog[i], "submit", "map") =>
             /\ i > 2
             /\ IsEvent(hostlog[i - 1], "complete", "block")
             /\ hostlog[i - 1].ok
             /\ IsEvent(hostlog[i - 2], "submit", "block")
       /\ IsEvent(hostlog[i], "submit", "header") =>
             /\ i > 4
             /\ hostlog[i].offset = 0 /\ hostlog[i].n = 1
             /\ IsEvent(hostlog[i - 1], "complete", "map")
             /\ hostlog[i - 1].ok
             /\ IsEvent(hostlog[i - 2], "submit", "map")
       /\ (IsEvent(hostlog[i], "complete", "block") /\ hostlog[i].ok
           /\ i < Len(hostlog))
             => IsEvent(hostlog[i + 1], "submit", "map")
       /\ (IsEvent(hostlog[i], "complete", "map") /\ hostlog[i].ok
           /\ i < Len(hostlog))
             => IsEvent(hostlog[i + 1], "submit", "header")

\* C6 witness: a write has run the three writes of an allocation and has
\* completed.
C6_Witness ==
    /\ WriteDone /\ req.ret = 0
    /\ \E i \in 1..Len(hostlog) :
          IsEvent(hostlog[i], "complete", "header") /\ hostlog[i].ok

\* C7 (as claimed): in the file, blocks_allocated does not exceed the
\* number of blocks written completely, and every map entry that is not
\* VDI_UNALLOCATED names a block written completely.
C7_WriteAhead ==
    /\ file.header.blocks_allocated <= Cardinality(file.full)
    /\ \A i \in DOMAIN file.blockmap :
          file.blockmap[i] # VDI_UNALLOCATED => file.blockmap[i] \in file.full

\* C8 (as claimed): after a failed data write of an allocation the write
\* has returned an error, the entry is VDI_UNALLOCATED and blocks_allocated
\* has its value of before the allocation.
C8_Write1Rollback ==
    (EndedAtFailureOf({"block"}) /\ OnDisk(LastEvent.sector_num))
        => /\ req.ret < 0
           /\ Entry(s, snap.block_index) = VDI_UNALLOCATED
           /\ s.header.blocks_allocated
                 = snap.before.header.blocks_allocated

\* C9 (as claimed, but for the mark, which no field of the driver holds):
\* after a failed map or header write of an allocation the write has
\* returned an error, the entry holds the new physical index and
\* blocks_allocated the incremented value.
C9_Write23Failure ==
    (EndedAtFailureOf({"map", "header"}) /\ OnDisk(LastEvent.sector_num))
        => /\ req.ret < 0
           /\ Entry(s, snap.block_index)
                 = snap.before.header.blocks_allocated
           /\ s.header.blocks_allocated
                 = snap.before.header.blocks_allocated + 1

\* C10 (as claimed): a write that reports success has had no host failure.
C10_NoSilentPartialWrite ==
    (WriteDone /\ req.ret = 0) =>
        \A i \in 1..Len(hostlog) : hostlog[i].ok

\* A host read of the request failed, at its submission or its completion.
ReadFailed(log) ==
    \E i \in 1..Len(log) : log[i].what = "read" /\ ~log[i].ok

\* C11 (as claimed): no step of a read changes the in-memory header or
\* map, and a read that has ended after a failed host read has returned an
\* error.
C11_ReadIoError ==
    [][req'.op = "read" =>
          /\ s' = s
          /\ (req'.done /\ ReadFailed(hostlog')) => req'.ret < 0]_vars

\* The data write of the latest allocation has completed, its map write
\* has not.
AfterWrite1 == opened /\ CrashPoint = "after_write1"

\* The physical index the latest allocation assigned.
NewIndex == snap.before.header.blocks_allocated

\* C12 (as claimed): at a stop after the data write of an allocation and
\* before its map write, the header and the map in the file are what they
\* were when the allocation began and no entry in the file names the new
\* block; and when vdi_check found nothing before that allocation, it
\* returns 0 as the first call after the image is opened again.
C12_CrashAfterWrite1 ==
    /\ AfterWrite1 =>
          /\ OnDiskMeta(file) = snap.disk
          /\ \A i \in DOMAIN file.blockmap : file.blockmap[i] # NewIndex
    /\ (opened /\ snap.crash = "after_write1" /\ snap.clean
          /\ req.op = "check" /\ req.done /\ prev.op = "open")
          => req.ret = 0

\* The map write of the latest allocation has completed, its header write
\* has not.
AfterWrite2 ==
    opened /\ (call.pc = "header"
                  \/ (acb.busy /\ acb.hd_aiocb.what = "header"))

\* Number of entries of the map in file f that are not VDI_UNALLOCATED.
DiskCount(f) ==
    Cardinality({i \in DOMAIN f.blockmap : f.blockmap[i] # VDI_UNALLOCATED})

\* C13 (as claimed): at a stop after the map write of an allocation and
\* before its header write, the entry of the newly allocated logical block
\* in the file names a block that is in the data region, and
\* blocks_allocated in the file is one less than the number of entries in
\* the file that are not VDI_UNALLOCATED.
C13_CrashAfterWrite2 ==
    (AfterWrite2 /\ snap.block_index \in DOMAIN file.blockmap) =>
        /\ file.blockmap[snap.block_index] # VDI_UNALLOCATED
        /\ file.blockmap[snap.block_index] \in file.full
        /\ file.header.blocks_allocated = DiskCount(file) - 1

\* The image was opened with blocks_allocated different from the number of
\* used entries.
OpenedInconsistent ==
    opened /\ Count(snap.open) # snap.open.header.blocks_allocated

\* The current request is a write that allocated a block and reported
\* success.
AllocatingWriteDone ==
    /\ WriteDone /\ req.ret = 0
    /\ \E i \in 1..Len(hostlog) : hostlog[i].what = "block" /\ hostlog[i].ok

\* C14 (as claimed): on an image opened with blocks_allocated different
\* from the number of used entries, after a successful allocating write
\* blocks_allocated equals the number of used entries and the index the
\* write assigned is held by no other entry.
C14_Resynchronization ==
    (OpenedInconsistent /\ AllocatingWriteDone) =>
        /\ s.header.blocks_allocated = Count(s)
        /\ \A i \in DOMAIN s.blockmap :
              i # snap.block_index => Entry(s, i) # NewIndex

\* The conditions on the header that vdi_open is said to enforce.
HeaderAsSpecified(header) ==
    /\ header.signature = VDI_SIGNATURE
    /\ header.version = VDI_VERSION_1_1
    /\ header.offset_blockmap % SECTOR_SIZE = 0
    /\ header.offset_data % SECTOR_SIZE = 0
    /\ header.sector_size = SECTOR_SIZE
    /\ header.block_size = 1 * MiB
    /\ header.disk_size = U64(header.blocks_in_image * header.block_size)

\* C15 (as claimed): vdi_open returns 0 and leaves the image open when the
\* header in the file meets every one of the seven conditions, and returns
\* an error and keeps no state when it breaks any of them.
C15_OpenValidation ==
    req.op = "open" =>
        IF HeaderAsSpecified(file.header)
        THEN req.ret = 0 /\ opened
        ELSE req.ret < 0 /\ ~opened /\ s = NoState

\* C16 (as claimed): when vdi_open has returned 0, every entry of the
\* in-memory map equals the entry of the map in the file.
C16_BlockmapLoad ==
    (opened /\ req.op = "open") =>
        \A i \in 0..(s.header.blocks_in_image - 1) :
            Entry(s, i) = file.blockmap[i]

\* The entries of st that are neither VDI_UNALLOCATED nor below
\* blocks_in_image.
OutOfRange(st) ==
    {i \in DOMAIN st.blockmap :
        /\ Entry(st, i) # VDI_UNALLOCATED
        /\ ~(Entry(st, i) >= 0 /\ Entry(st, i) < st.header.blocks_in_image)}

Backed(sector_num) ==
    /\ BlockOf(sector_num) \in DOMAIN s.blockmap
    /\ Entry(s, BlockOf(sector_num)) # VDI_UNALLOCATED
    /\ Entry(s, BlockOf(sector_num)) \in file.full

\* C18 (as claimed): vdi_is_allocated reports
\* min(nb_sectors, block_sectors - sector_num mod block_sectors) sectors,
\* a run that ends in the block it starts in, and returns true exactly
\* when the sectors of the run are backed by a block in the data region.
C18_IsAllocatedHonesty ==
    req.op = "is_allocated" =>
        /\ req.pnum = Min(req.nb_sectors,
                          s.block_sectors
                             - (req.sector_num % s.block_sectors))
        /\ BlockOf(req.sector_num + req.pnum - 1) = BlockOf(req.sector_num)
        /\ (req.ret # 0) <=>
              \A x \in req.sector_num..(req.sector_num + req.pnum - 1) :
                  Backed(x)

\* C19 (as claimed): a read or write that starts before the disk ends
\* with an error and changes neither the file nor the in-memory state; a
\* read or write makes no host transfer and no allocation for sectors at
\* or past total_sectors, stores nothing in the caller's buffer for them,
\* and ends with success when nothing has failed on the host.
C19_OutOfRange ==
    [][(opened /\ req'.op \in {"read", "write"}) =>
          /\ req'.sector_num < 0 =>
                /\ req'.done /\ req'.ret < 0
                /\ file' = file /\ s' = s
          /\ \A i \in 1..Len(hostlog') :
                hostlog'[i].sector_num < bs.total_sectors
          /\ req'.op = "read" =>
                \A j \in 1..Len(req'.buf) :
                    req'.sector_num + j - 1 >= bs.total_sectors
                        => req'.buf[j] = Poison
          /\ (req'.done /\ req'.sector_num >= 0 /\ faults' = 0)
                => req'.ret = 0]_vars

\* The current request is a write that repeats the successful write made
\* just before it: same sectors, same data.
Rewrite(r, p) ==
    /\ r.op = "write" /\ p.op = "write" /\ p.ret = 0
    /\ r.sector_num = p.sector_num /\ r.nb_sectors = p.nb_sectors
    /\ r.buf = p.buf

\* C20 (as claimed): no step of a write that repeats the successful write
\* before it changes the file or the in-memory header and map, and the
\* repeated write allocates no block.
C20_IdempotentRewrite ==
    [][(opened /\ Rewrite(req', prev')) =>
          /\ file' = file
          /\ s' = s
          /\ \A i \in 1..Len(hostlog') : hostlog'[i].what = "data"]_vars

\* The file is what the latest vdi_create wrote.
Created == options # NoOptions

\* C21 (as claimed): an image created with the static option has image
\* type 2, blocks_allocated = blocks_in_image, entry i = i for every block
\* and all its blocks zero-filled in the data region; an image created
\* without it has image type 1, blocks_allocated = 0 and every entry
\* VDI_UNALLOCATED.
C21_StaticCreate ==
    Created =>
        LET blocks == 0..(file.header.blocks_in_image - 1)
        IN IF options.static = "on"
           THEN /\ file.header.image_type = VDI_TYPE_STATIC
                /\ file.header.blocks_allocated
                      = file.header.blocks_in_image
                /\ \A i \in blocks : file.blockmap[i] = i
                /\ blocks \subseteq file.full
           ELSE /\ file.header.image_type = VDI_TYPE_DYNAMIC
                /\ file.header.blocks_allocated = 0
                /\ \A i \in blocks : file.blockmap[i] = VDI_UNALLOCATED

\* C22 (as claimed): the header written by vdi_create for any requested
\* size has blocks_in_image * block_size = disk_size, offset_blockmap =
\* 0x200 and offset_data = 0x200 + ceil(blocks_in_image * 4 / 512) * 512,
\* and vdi_open of the created file returns 0.
C22_CreateValid ==
    Created =>
        /\ file.header.blocks_in_image * file.header.block_size
              = file.header.disk_size[1]
        /\ file.header.disk_size[2] = 0
        /\ file.header.offset_blockmap = 512
        /\ file.header.offset_data
              = 512 + ((file.header.blocks_in_image * SizeofU32
                          + SECTOR_SIZE - 1) \div SECTOR_SIZE) * SECTOR_SIZE
        /\ req.op = "open" => (req.ret = 0 /\ opened)

\* C23 (as claimed): vdi_probe returns 100 when the buffer holds at least
\* sizeof(header) bytes and both signature and version have their values,
\* and 0 in every other case.
C23_Probe ==
    req.op = "probe" =>
        req.ret = IF /\ req.buf[1] >= SizeofHeader
                     /\ file.header.signature = VDI_SIGNATURE
                     /\ file.header.version = VDI_VERSION_1_1
                  THEN 100 ELSE 0

\* The state of the acb when the step that ends the request reaches the
\* label done: the state set just before a submission that failed
\* (vdi.c:642-657, 660-672, 721-730), the state the callback was entered
\* with when the host write failed (vdi.c:631-633), and aio_state_normal
\* when nothing remains to write (vdi.c:683-687).
StateAtDone ==
    LET e == hostlog'[Len(hostlog')]
    IN IF hostlog' # <<>> /\ e.ev = "submit" /\ ~e.ok
       THEN CASE e.what = "block" -> "aio_must_write_blockmap"
              [] e.what = "map" -> "aio_must_write_header"
              [] e.what = "header" -> "aio_header_written"
              [] OTHER -> "aio_state_normal"
       ELSE IF hostlog' # <<>> /\ e.ev = "complete" /\ ~e.ok
       THEN acb.state
       ELSE "aio_state_normal"

\* An asynchronous write is in flight before and after the step.
AioWriteStep == acb.busy /\ acb.is_write /\ acb'.busy

\* The transitions of one callback: a state is left only for its successor,
\* at the submission of the write the successor waits for; the callback of
\* the header write returns to aio_state_normal and goes on with the next
\* chunk, which may start the next allocation.
AioTransitions ==
    /\ (~acb.busy /\ acb'.busy /\ acb'.is_write) =>
          \/ acb'.state = "aio_state_normal"
          \/ /\ acb'.state = "aio_must_write_blockmap"
             /\ acb'.hd_aiocb.what = "block"
    /\ (AioWriteStep /\ acb'.state # acb.state) =>
          \/ /\ acb.state \in {"aio_state_normal", "aio_header_written"}
             /\ acb'.state = "aio_must_write_blockmap"
             /\ acb'.hd_aiocb.what = "block"
          \/ /\ acb.state = "aio_must_write_blockmap"
             /\ acb'.state = "aio_must_write_header"
             /\ acb'.hd_aiocb.what = "map"
          \/ /\ acb.state = "aio_must_write_header"
             /\ acb'.state = "aio_header_written"
             /\ acb'.hd_aiocb.what = "header"
          \/ /\ acb.state = "aio_header_written"
             /\ acb'.state = "aio_state_normal"
             /\ acb.hd_aiocb.what = "header"
    /\ (AioWriteStep /\ acb.state = "aio_header_written") =>
          acb.hd_aiocb.what = "header"

\* The cursor moves only in a callback entered in aio_state_normal or
\* aio_header_written, and by the chunk whose write just completed.
AioCursor ==
    (AioWriteStep /\ <<acb'.sector_num, acb'.nb_sectors, acb'.pos>>
                        # <<acb.sector_num, acb.nb_sectors, acb.pos>>) =>
        /\ acb.state \in {"aio_state_normal", "aio_header_written"}
        /\ acb.hd_aiocb.what \in {"block", "data", "header"}
        /\ acb'.sector_num = acb.sector_num + acb.n_sectors
        /\ acb'.nb_sectors = acb.nb_sectors - acb.n_sectors
        /\ acb'.pos = acb.pos + acb.n_sectors

\* An asynchronous write ends in this step with result 0.
AioWriteSucceeds ==
    /\ config_aio /\ opened'
    /\ req'.op = "write" /\ req'.done /\ req'.ret = 0
    /\ \/ acb.busy /\ acb.is_write
       \/ ~req.done \/ nreq' # nreq

\* C24 (as claimed): an asynchronous write starts in aio_state_normal,
\* moves only normal -> must_write_blockmap -> must_write_header ->
\* header_written -> normal, each at the submission (the last at the
\* completion) the claim names, completes successfully only in
\* aio_state_normal, and advances its cursor only in normal and
\* header_written by exactly the chunk just written.
C24_WriteStateMachine ==
    [][/\ AioTransitions
       /\ AioCursor
       /\ AioWriteSucceeds => StateAtDone = "aio_state_normal"]_vars

\* C24, the transitions and the cursor alone.
Aio_TransitionsAndCursor == [][AioTransitions /\ AioCursor]_vars

(***************************************************************************)
(* The asynchronous and the blocking build on the same request.  The       *)
(* request runs alone in the asynchronous build; the driver is then put    *)
(* back to the image and the in-memory state the request started from, in  *)
(* the blocking build, and the request runs again.  snap.image is the      *)
(* file the pair started from, snap.first what the first run left.         *)
(***************************************************************************)
\* Images with blocks already allocated: logical block order[k] is backed
\* by physical block k - 1, whose first sector holds data.
PairImage(bytes, order) ==
    LET f == vdi_create(bytes, FALSE)
        used == {k - 1 : k \in 1..Len(order)}
    IN [f EXCEPT !.blockmap =
                    [i \in DOMAIN @ |->
                        IF \E k \in 1..Len(order) : order[k] = i
                        THEN (CHOOSE k \in 1..Len(order) : order[k] = i) - 1
                        ELSE @[i]],
                 !.header.blocks_allocated = Len(order),
                 !.full = used,
                 !.sec = {<<k, 0, 90 + k>> : k \in used}]

PairOrders == {<<>>, <<0>>, <<1>>, <<1, 0>>, <<128>>, <<255, 0>>}

PairImages ==
    {PairImage(2 * MiB, o) : o \in {<<>>, <<0>>, <<1, 0>>}}
        \cup {PairImage(256 * MiB, o) : o \in PairOrders}

NoRun == [done |-> FALSE]

InitPair ==
    /\ host_bigendian \in BOOLEAN
    /\ config_aio = TRUE
    /\ options = NoOptions
    /\ file \in PairImages
    /\ opened = FALSE
    /\ bs = [total_sectors |-> 0]
    /\ s = NoState
    /\ call = NoCall
    /\ acb = NoAcb
    /\ req = NoReq
    /\ prev = NoReq
    /\ hostlog = <<>>
    /\ nreq = 0
    /\ faults = 0
    /\ snap = NoSnap @@ [image |-> file, first |-> NoRun]

\* The first run is over: the same image is taken up by the blocking
\* build (vdi.c:423, 770), in the state vdi_open left.
Rebuild ==
    /\ config_aio /\ opened /\ ~acb.busy
    /\ req.done /\ req.op \in {"read", "write"}
    /\ nreq = 1
    /\ config_aio' = FALSE
    /\ s' = snap.open
    /\ file' = snap.image
    /\ snap' = [snap EXCEPT !.first = [done |-> TRUE, hostlog |-> hostlog,
                                        s |-> s, file |-> file, req |-> req]]
    /\ UNCHANGED <<host_bigendian, options, opened, bs, call, acb, req,
                   prev, hostlog, nreq, faults>>

\* The request of the first run, given to the blocking build.
SameRead ==
    /\ snap.first.done /\ nreq = 1 /\ req.op = "read"
    /\ vdi_read(req.sector_num, req.nb_sectors)

SameWrite ==
    /\ snap.first.done /\ nreq = 1 /\ req.op = "write"
    /\ vdi_write(req.sector_num, req.buf, req.nb_sectors)

NextPair ==
    \/ vdi_open
    \/ nreq = 0 /\ \E q \in Requests : vdi_aio_readv(q[1], q[2])
    \/ vdi_aio_read_bh
    \/ vdi_aio_read_cb
    \/ nreq = 0 /\ \E q \in Requests :
          vdi_aio_writev(q[1], WriteBuffer(1, q[2]), q[2])
    \/ vdi_aio_write_cb
    \/ Rebuild
    \/ SameRead
    \/ vdi_read_loop
    \/ SameWrite
    \/ vdi_write_loop
    \/ vdi_write_blockmap
    \/ vdi_write_header

SpecPair == InitPair /\ [][NextPair]_vars

\* Both runs of the request are over and no host call failed.
BothRunsDone ==
    /\ ~config_aio /\ snap.first.done
    /\ nreq = 2 /\ req.done /\ call.pc = "idle"
    /\ faults = 0

\* The second run did what the first did: the same host I/O in the same
\* order, the same file, the same header and map in memory, the same
\* result and the same data in the caller's buffer.
SameOutcome ==
    /\ hostlog = snap.first.hostlog
    /\ file = snap.first.file
    /\ s = snap.first.s
    /\ req.ret = snap.first.req.ret
    /\ req.buf = snap.first.req.buf

\* C25 (as claimed): for the same initial image and the same request,
\* issued alone and without host errors, the asynchronous and the blocking
\* build make the same host I/O in the same order and leave the same file,
\* the same in-memory header and map and the same result.
C25_Equivalence == BothRunsDone => SameOutcome

\* C25 for the requests that end inside the disk.
Pair_InRange ==
    (BothRunsDone /\ req.sector_num + req.nb_sectors <= bs.total_sectors)
        => SameOutcome

Pair_Witness ==
    ~(BothRunsDone /\ req.sector_num + req.nb_sectors <= bs.total_sectors
        /\ req.op = "write" /\ s.header.blocks_allocated
                                  > snap.open.header.blocks_allocated)

\* The logical blocks whose entry is not VDI_UNALLOCATED.
Used(st) == {i \in DOMAIN st.blockmap : Entry(st, i) # VDI_UNALLOCATED}

\* C26 (as claimed): in an open image, whatever was read and written, no
\* two logical blocks have the same physical index, every index is below
\* blocks_allocated, and blocks_allocated is at most blocks_in_image.
C26_PhysicalIndexUniqueness ==
    opened =>
        /\ \A i \in Used(s) : \A j \in Used(s) :
              i # j => Entry(s, i) # Entry(s, j)
        /\ \A i \in Used(s) :
              Entry(s, i) >= 0 /\ Entry(s, i) < s.header.blocks_allocated
        /\ s.header.blocks_allocated <= s.header.blocks_in_image

\* C26 for an image whose whole map vdi_open read and found empty, after
\* requests that ended inside the disk.
Uniqueness_WholeMapInRange ==
    (/\ opened
     /\ EntriesRead(s.header) = s.header.blocks_in_image
     /\ InRange(req) /\ InRange(prev)
     /\ Count(snap.open) = 0 /\ snap.open.header.blocks_allocated = 0)
        => C26_PhysicalIndexUniqueness

\* Such an image after a write that allocated a block.
Uniqueness_Reached ==
    ~(/\ opened
      /\ EntriesRead(s.header) = s.header.blocks_in_image
      /\ InRange(req) /\ InRange(prev)
      /\ Count(snap.open) = 0 /\ snap.open.header.blocks_allocated = 0
      /\ AllocatingWriteDone /\ prev.op = "write")

(***************************************************************************)
(* Progress of the asynchronous requests.  Every host I/O that was         *)
(* submitted calls back, and a scheduled bottom half runs: the callbacks   *)
(* are weakly fair.  The driver is not closed under a request.             *)
(***************************************************************************)
\* The requests of Requests and one of no sectors.
LiveRequests == Requests \cup {<<0, 0>>}

InitLive ==
    /\ host_bigendian \in BOOLEAN
    /\ config_aio = TRUE
    /\ options = NoOptions
    /\ file \in PairImages
    /\ opened = FALSE
    /\ bs = [total_sectors |-> 0]
    /\ s = NoState
    /\ call = NoCall
    /\ acb = NoAcb
    /\ req = NoReq
    /\ prev = NoReq
    /\ hostlog = <<>>
    /\ nreq = 0
    /\ faults = 0
    /\ snap = NoSnap

NextLive ==
    \/ vdi_open
    \/ \E q \in LiveRequests : vdi_aio_readv(q[1], q[2])
    \/ vdi_aio_read_bh
    \/ vdi_aio_read_cb
    \/ \E q \in LiveRequests :
          vdi_aio_writev(q[1], WriteBuffer(nreq + 1, q[2]), q[2])
    \/ vdi_aio_write_cb

SpecLive ==
    /\ InitLive
    /\ [][NextLive]_vars
    /\ WF_vars(vdi_aio_read_bh)
    /\ WF_vars(vdi_aio_read_cb)
    /\ WF_vars(vdi_aio_write_cb)

\* The stage of the growth an acb is at.
Stage(a) ==
    CASE a.state = "aio_state_normal" -> 0
      [] a.state = "aio_must_write_blockmap" -> 1
      [] a.state = "aio_must_write_header" -> 2
      [] a.state = "aio_header_written" -> 3

\* A callback that leaves the request in flight has taken sectors off the
\* remaining count, or has moved the growth one stage on.
AioProgress ==
    (acb.busy /\ acb'.busy) =>
        \/ acb'.nb_sectors < acb.nb_sectors /\ acb'.nb_sectors >= 0
        \/ /\ acb'.nb_sectors = acb.nb_sectors
           /\ Stage(acb') > Stage(acb)

\* The completion callback has run: the request makes no host I/O and
\* completes no second time.
AioQuiet ==
    (opened /\ req.done /\ nreq' = nreq) => UNCHANGED <<req, hostlog, acb>>

\* The completion callback runs in the step that releases the acb, and in
\* no other.
AioOnce ==
    /\ (acb.busy /\ ~acb'.busy) => (~req.done /\ req'.done)
    /\ (opened /\ ~req.done) => acb.busy
    /\ (opened /\ ~req.done /\ req'.done) => (acb.busy /\ ~acb'.busy)

\* C27: when every submitted host I/O calls back and every scheduled
\* bottom half runs, an asynchronous read or write of nb_sectors >= 0
\* calls its completion callback, once, and makes no host I/O after it;
\* every callback before it takes sectors off the remaining count or moves
\* the growth one stage on.
C27_AsyncCompletion ==
    /\ (opened /\ ~req.done) ~> req.done
    /\ [][AioProgress /\ AioQuiet /\ AioOnce]_vars

\* A read of two sectors has completed: the first came from an unallocated
\* block through the bottom half, the second from the host; and before it
\* a write that allocated a block.
C27_Witness ==
    /\ req.op = "read" /\ req.done /\ req.ret = 0 /\ req.nb_sectors = 2
    /\ req.buf[1] = 0
    /\ \E i \in 1..Len(hostlog) :
          IsEvent(hostlog[i], "complete", "read") /\ hostlog[i].ok
    /\ prev.op = "write" /\ prev.done /\ prev.ret = 0
    /\ s.header.blocks_allocated > snap.open.header.blocks_allocated

(***************************************************************************)
(* Two asynchronous requests in flight.  The callbacks of the driver run   *)
(* one at a time in the main loop; which of the two requests the next      *)
(* callback belongs to is open.  acb, req and hostlog are those of the     *)
(* request whose callback runs next, snap.other holds the acb, the request *)
(* and the host I/O of the other one.  Both share s and file (vdi.c:37-38: *)
(* no lock guards the header and the block map).                           *)
(***************************************************************************)
NoOther == [acb |-> NoAcb, req |-> NoReq, hostlog |-> <<>>]

\* Writes of one block each: to the first two blocks, whose entries share
\* a sector of the map, and to the first block of the next map sector.
ConcRequests ==
    {<<0, 2>>, <<BlockSectors, 1>>, <<EntriesPerSector * BlockSectors, 1>>}

InitConc ==
    /\ host_bigendian \in BOOLEAN
    /\ config_aio = TRUE
    /\ options = NoOptions
    /\ file \in InitialImages
    /\ opened = FALSE
    /\ bs = [total_sectors |-> 0]
    /\ s = NoState
    /\ call = NoCall
    /\ acb = NoAcb
    /\ req = NoReq
    /\ prev = NoReq
    /\ hostlog = <<>>
    /\ nreq = 0
    /\ faults = 0
    /\ snap = NoSnap @@ [other |-> NoOther]

\* The main loop turns to the other request while one is in flight.
OtherRequest ==
    /\ opened
    /\ acb.busy \/ snap.other.acb.busy
    /\ acb' = snap.other.acb
    /\ req' = snap.other.req
    /\ hostlog' = snap.other.hostlog
    /\ snap' = [snap EXCEPT !.other =
                   [acb |-> acb, req |-> req, hostlog |-> hostlog]]
    /\ UNCHANGED <<build, file, opened, bs, s, call, prev, nreq, faults>>

NextConc ==
    \/ vdi_open
    \/ \E q \in ConcRequests :
          vdi_aio_writev(q[1], WriteBuffer(nreq + 1, q[2]), q[2])
    \/ vdi_aio_write_cb
    \/ OtherRequest

SpecConc == InitConc /\ [][NextConc]_vars

\* Request r is a write that allocated the block it starts in and
\* completed with success.
AllocatedBy(r) ==
    /\ r.op = "write" /\ r.done /\ r.ret = 0
    /\ BlockOf(r.sector_num) \in DOMAIN s.blockmap
    /\ Entry(snap.open, BlockOf(r.sector_num)) = VDI_UNALLOCATED

\* Two writes to two different unallocated blocks were in flight together
\* and both have completed successfully.
BothCompleted ==
    /\ opened /\ ~acb.busy /\ ~snap.other.acb.busy
    /\ AllocatedBy(req) /\ AllocatedBy(snap.other.req)
    /\ BlockOf(req.sector_num) # BlockOf(snap.other.req.sector_num)

\* C28 (as claimed): two asynchronous writes to different unallocated
\* blocks that are in flight together get different physical blocks under
\* every interleaving of the completions of their host I/O, and once both
\* have completed successfully the on-disk header's blocks_allocated is
\* the number of used on-disk entries and both new entries are on disk.
C28_ConcurrentAllocations ==
    BothCompleted =>
        LET a == BlockOf(req.sector_num)
            b == BlockOf(snap.other.req.sector_num)
        IN /\ Entry(s, a) # Entry(s, b)
           /\ file.header.blocks_allocated = DiskCount(file)
           /\ file.blockmap[a] # VDI_UNALLOCATED
           /\ file.blockmap[b] # VDI_UNALLOCATED

\* C28, the physical blocks of the two writes alone.
Conc_DistinctBlocks ==
    BothCompleted =>
        Entry(s, BlockOf(req.sector_num))
            # Entry(s, BlockOf(snap.other.req.sector_num))

\* C28 without host failures, for two blocks whose entries lie in the
\* first sector of the map.
Conc_SameMapSector ==
    (/\ BothCompleted /\ faults = 0
     /\ BlockOf(req.sector_num) < EntriesPerSector
     /\ BlockOf(snap.other.req.sector_num) < EntriesPerSector)
        => C28_ConcurrentAllocations

====
